---- MODULE Spec2Model ----
(***************************************************************************)
(* The Note store of notes/models.py and notes/migrations/0001_initial.py. *)
(*                                                                         *)
(* The repository declares one Django model, Note, and the migration that  *)
(* creates its table.  The model below is the table (rows keyed by the     *)
(* BigAutoField primary key), the field options the two files declare, and *)
(* the operations those declarations give a Note: construction with        *)
(* keyword arguments, save() as INSERT or UPDATE (with the auto_now        *)
(* pre_save hook and the NOT NULL constraints of the migration), get by    *)
(* primary key, the default listing, the logical delete described by the   *)
(* comment on is_active, and __str__.                                      *)
(***************************************************************************)
EXTENDS Integers, Sequences, FiniteSets, TLC

\* Bounds of the model.
MaxNotes == 2   \* rows the table may hold under Spec
MaxTime == 1    \* largest clock reading
ListNotes == 3  \* rows the table may hold under SpecList

VARIABLES
  rows,       \* the Note table: primary key -> row
  nextId,     \* the table's auto-increment sequence
  clock,      \* the latest reading of the system clock (timezone.now())
  last,       \* the latest operation, its arguments and its outcome
  created,    \* history: the ids handed out, in creation order
  lastWrite   \* history: id -> clock reading of the latest successful write

vars == <<rows, nextId, clock, last, created, lastWrite>>

----------------------------------------------------------------------------
\* Python values.  None is Python's None (SQL NULL); the others are tagged.
None == [tag |-> "None"]
Text(s) == [tag |-> "str", val |-> s]
Bool(b) == [tag |-> "bool", val |-> b]
DateTime(t) == [tag |-> "datetime", val |-> t]

\* A keyword argument or attribute assignment a caller may leave out.
NotGiven == [given |-> FALSE]
Given(v) == [given |-> TRUE, val |-> v]

\* What callers pass.
TextInputs == {None, Text("hello")}
BoolInputs == {None, Bool(TRUE), Bool(FALSE)}
TimeInputs == {DateTime(0)}
Opt(S) == {NotGiven} \cup {Given(v) : v \in S}

----------------------------------------------------------------------------
\* The fields of Note, with the options the model and the migration give.
\* The bug of leaving null=True out of the title.
title_not_null ==
  [null |-> FALSE, blank |-> TRUE, has_default |-> FALSE,
   auto_now |-> FALSE, auto_now_add |-> FALSE, empty_strings_allowed |-> TRUE]

title ==
  [null |-> TRUE, blank |-> TRUE, has_default |-> FALSE,
   auto_now |-> FALSE, auto_now_add |-> FALSE, empty_strings_allowed |-> TRUE]

content ==
  [null |-> TRUE, blank |-> TRUE, has_default |-> FALSE,
   auto_now |-> FALSE, auto_now_add |-> FALSE, empty_strings_allowed |-> TRUE]

\* The bug of writing auto_now_add=True for auto_now=True.
last_updated_on_auto_now_add ==
  [null |-> FALSE, blank |-> TRUE, has_default |-> FALSE,
   auto_now |-> FALSE, auto_now_add |-> TRUE, empty_strings_allowed |-> FALSE]

\* auto_now (like auto_now_add) makes the field blank=True, editable=False.
last_updated_on ==
  [null |-> FALSE, blank |-> TRUE, has_default |-> FALSE,
   auto_now |-> TRUE, auto_now_add |-> FALSE, empty_strings_allowed |-> FALSE]

\* The bug of declaring default=False.
is_active_default_false ==
  [null |-> FALSE, blank |-> FALSE, has_default |-> TRUE, default |-> Bool(FALSE),
   auto_now |-> FALSE, auto_now_add |-> FALSE, empty_strings_allowed |-> FALSE]

is_active ==
  [null |-> FALSE, blank |-> FALSE, has_default |-> TRUE, default |-> Bool(TRUE),
   auto_now |-> FALSE, auto_now_add |-> FALSE, empty_strings_allowed |-> FALSE]

\* Field.get_default(): the declared default; else None when the field is
\* nullable or cannot hold an empty string; else the empty string.
get_default(field) ==
  IF field.has_default THEN field.default
  ELSE IF (~field.empty_strings_allowed) \/ field.null THEN None
  ELSE Text("")

\* The bug of refreshing the timestamp on INSERT only.
pre_save_on_add_only(field, value, add, t) ==
  IF (field.auto_now \/ field.auto_now_add) /\ add THEN DateTime(t) ELSE value

\* Field.pre_save(instance, add): an auto_now field takes the time of the
\* save, whatever the instance holds (an auto_now_add field on INSERT only);
\* any other field keeps the instance's value.
pre_save(field, value, add, t) ==
  IF field.auto_now \/ (field.auto_now_add /\ add) THEN DateTime(t) ELSE value

\* Note(**kwargs): every field left out takes its default.
Attr(field, arg) == IF arg.given THEN arg.val ELSE get_default(field)

Note(kwargs) ==
  [title           |-> Attr(title, kwargs.title),
   content         |-> Attr(content, kwargs.content),
   last_updated_on |-> Attr(last_updated_on, kwargs.last_updated_on),
   is_active       |-> Attr(is_active, kwargs.is_active)]

\* The bug of saving a fresh Note(**kwargs) under the old primary key
\* instead of the instance loaded from the row.
SetAttrsOnFreshNote(inst, kwargs) == Note(kwargs)

\* setattr for each attribute the caller assigns.
SetAttrs(inst, kwargs) ==
  [title           |-> IF kwargs.title.given THEN kwargs.title.val ELSE inst.title,
   content         |-> IF kwargs.content.given THEN kwargs.content.val ELSE inst.content,
   last_updated_on |-> IF kwargs.last_updated_on.given
                         THEN kwargs.last_updated_on.val ELSE inst.last_updated_on,
   is_active       |-> IF kwargs.is_active.given THEN kwargs.is_active.val ELSE inst.is_active]

\* The column values save() sends to the database at time t.
SaveValues(inst, add, t) ==
  [title           |-> pre_save(title, inst.title, add, t),
   content         |-> pre_save(content, inst.content, add, t),
   last_updated_on |-> pre_save(last_updated_on, inst.last_updated_on, add, t),
   is_active       |-> pre_save(is_active, inst.is_active, add, t)]

\* The NOT NULL constraints of the table: a column declared without null=True
\* rejects NULL (IntegrityError).
NotNullOK(vals) ==
  /\ (vals.title = None => title.null)
  /\ (vals.content = None => content.null)
  /\ (vals.last_updated_on = None => last_updated_on.null)
  /\ (vals.is_active = None => is_active.null)

\* A stored row; the two NOT NULL columns are stored untagged.
ToRow(vals) ==
  [title |-> vals.title, content |-> vals.content,
   last_updated_on |-> vals.last_updated_on.val,
   is_active |-> vals.is_active.val]

\* Note.objects.get(pk=id): the instance loaded from the row.
Get(id) ==
  [title |-> rows[id].title, content |-> rows[id].content,
   last_updated_on |-> DateTime(rows[id].last_updated_on),
   is_active |-> Bool(rows[id].is_active)]

Ids == DOMAIN rows

KwargsSet ==
  [title : Opt(TextInputs), content : Opt(TextInputs),
   last_updated_on : Opt(TimeInputs), is_active : Opt(BoolInputs)]

\* timezone.now(): the clock does not run backwards; two saves may read the
\* same instant.
Now == {t \in {clock, clock + 1} : t <= MaxTime}

----------------------------------------------------------------------------
Init ==
  /\ rows = <<>>
  /\ nextId = 1
  /\ clock = 0
  /\ last = [op |-> "none"]
  /\ created = <<>>
  /\ lastWrite = <<>>

\* The bug of a key sequence that does not advance.
NextValStuck(seq) == seq

\* BigAutoField: the next value of the auto-increment sequence.
NextVal(seq) == seq + 1

\* Note.objects.create(**kwargs) / Note(**kwargs).save(): INSERT.
Create(cap) ==
  /\ nextId <= cap
  /\ \E kwargs \in KwargsSet, t \in Now :
       LET vals == SaveValues(Note(kwargs), TRUE, t) IN
       /\ clock' = t
       /\ IF NotNullOK(vals)
            THEN /\ rows' = (nextId :> ToRow(vals)) @@ rows
                 /\ nextId' = NextVal(nextId)
                 /\ created' = Append(created, nextId)
                 /\ lastWrite' = (nextId :> t) @@ lastWrite
                 /\ last' = [op |-> "create", id |-> nextId, outcome |-> "ok",
                             kwargs |-> kwargs]
            ELSE /\ UNCHANGED <<rows, nextId, created, lastWrite>>
                 /\ last' = [op |-> "create", outcome |-> "IntegrityError",
                             kwargs |-> kwargs]

\* The write half of an update or a logical delete: note = get(pk=id);
\* assign the attributes; note.save(): UPDATE of every column of that row.
SaveExisting(op, id, kwargs, t) ==
  LET vals == SaveValues(SetAttrs(Get(id), kwargs), FALSE, t) IN
  /\ clock' = t
  /\ UNCHANGED <<nextId, created>>
  /\ IF NotNullOK(vals)
       THEN /\ rows' = [rows EXCEPT ![id] = ToRow(vals)]
            /\ lastWrite' = [lastWrite EXCEPT ![id] = t]
            /\ last' = [op |-> op, id |-> id, outcome |-> "ok", kwargs |-> kwargs]
       ELSE /\ UNCHANGED <<rows, lastWrite>>
            /\ last' = [op |-> op, id |-> id, outcome |-> "IntegrityError"]

NoKwargs ==
  [title |-> NotGiven, content |-> NotGiven,
   last_updated_on |-> NotGiven, is_active |-> NotGiven]

\* An update assigns one attribute and saves.
OneKwarg ==
  {[NoKwargs EXCEPT !.title = Given(v)] : v \in TextInputs}
  \cup {[NoKwargs EXCEPT !.content = Given(v)] : v \in TextInputs}
  \cup {[NoKwargs EXCEPT !.last_updated_on = Given(v)] : v \in TimeInputs}
  \cup {[NoKwargs EXCEPT !.is_active = Given(v)] : v \in BoolInputs}

Update ==
  \E id \in Ids, kwargs \in OneKwarg, t \in Now :
    SaveExisting("update", id, kwargs, t)

\* The bug of a delete that also blanks the note.
DeleteKwargsBlanking ==
  [NoKwargs EXCEPT !.is_active = Given(Bool(FALSE)), !.title = Given(None),
                   !.content = Given(None)]

\* "To delete a note, we wil simply set is_active to False".
DeleteKwargs == [NoKwargs EXCEPT !.is_active = Given(Bool(FALSE))]

\* The bug of deleting the row (Model.delete()) instead of flagging it.
HardDelete ==
  \E id \in Ids :
    /\ rows' = [i \in Ids \ {id} |-> rows[i]]
    /\ lastWrite' = [i \in Ids \ {id} |-> lastWrite[i]]
    /\ last' = [op |-> "delete", id |-> id, outcome |-> "ok", kwargs |-> DeleteKwargs]
    /\ UNCHANGED <<nextId, clock, created>>

LogicalDelete ==
  \E id \in Ids, t \in Now :
    SaveExisting("delete", id, DeleteKwargs, t)

\* Note.objects.get(pk=id), handed to the caller.
Read ==
  \E id \in Ids :
    /\ last' = [op |-> "read", id |-> id, result |-> rows[id]]
    /\ UNCHANGED <<rows, nextId, clock, created, lastWrite>>

\* str(note): Python raises TypeError when __str__ returns a non-string.
__str__(self) == self.title

Str ==
  \E id \in Ids :
    LET r == __str__(Get(id)) IN
    /\ last' = IF r.tag = "str"
                 THEN [op |-> "str", id |-> id, outcome |-> "ok", result |-> r.val]
                 ELSE [op |-> "str", id |-> id, outcome |-> "TypeError"]
    /\ UNCHANGED <<rows, nextId, clock, created, lastWrite>>

\* Note.objects.all(): the model declares no Meta.ordering, so the query has
\* no ORDER BY and the database may return the rows in any order.
Orderings ==
  {s \in [1..Cardinality(Ids) -> Ids] : \A i, j \in DOMAIN s : i # j => s[i] # s[j]}

List ==
  \E s \in Orderings :
    /\ last' = [op |-> "list", result |-> [i \in DOMAIN s |-> rows[s[i]]]]
    /\ UNCHANGED <<rows, nextId, clock, created, lastWrite>>

\* The store's operations on single Notes.
Next == Create(MaxNotes) \/ Update \/ LogicalDelete \/ Read \/ Str

Spec == Init /\ [][Next]_vars

\* The store with its listing, and room for three rows.
NextList == Create(ListNotes) \/ Update \/ LogicalDelete \/ Read \/ Str \/ List

SpecList == Init /\ [][NextList]_vars

----------------------------------------------------------------------------
\* Shared vocabulary of the properties below.
Wrote(l) == l.op \in {"create", "update", "delete"} /\ l.outcome = "ok"

\* A read hands back the stored row and leaves the table alone.
ReadStep == last'.op = "read" => (rows' = rows /\ last'.result = rows[last'.id])

\* C1: over any sequence of writes to one row, last_updated_on never
\* decreases: every step leaves each stored row with a last_updated_on at
\* least as large as the one it had.
C1_LastUpdatedNeverDecreases ==
  [][\A id \in DOMAIN rows :
       id \in DOMAIN rows' =>
         rows'[id].last_updated_on >= rows[id].last_updated_on]_vars

\* An update that supplied an older timestamp has acted on a row written at
\* a later time, and the row holds the later time.
C1_Witness ==
  /\ last.op = "update" /\ last.outcome = "ok"
  /\ last.kwargs.last_updated_on.given
  /\ rows[last.id].last_updated_on > last.kwargs.last_updated_on.val.val

\* C2: the ids handed out are strictly increasing in creation order (so no
\* id is handed out twice), every create made a row of its own, and the
\* sequence has moved past every id in use.
C2_IdsUniqueIncreasing ==
  /\ \A i, j \in DOMAIN created : i < j => created[i] < created[j]
  /\ Cardinality(Ids) = Len(created)
  /\ \A i \in DOMAIN created : created[i] \in Ids /\ created[i] < nextId

\* Two Notes exist, and one of them has since been deleted logically.
C2_Witness ==
  /\ Len(created) = 2
  /\ last.op = "delete" /\ last.outcome = "ok" /\ last.id = created[1]

\* C3: a logical delete leaves the Note with is_active = false and with the
\* id, title and content it had; the flag then stays false across every step
\* that is not an explicit write of is_active to that Note, and a read returns
\* the stored row.
C3_LogicalDeleteFrame ==
  [][/\ (last'.op = "delete" /\ last'.outcome = "ok") =>
          /\ DOMAIN rows' = DOMAIN rows
          /\ rows'[last'.id].is_active = FALSE
          /\ rows'[last'.id].title = rows[last'.id].title
          /\ rows'[last'.id].content = rows[last'.id].content
     /\ \A id \in DOMAIN rows :
          (/\ ~rows[id].is_active
           /\ ~(Wrote(last') /\ last'.id = id /\ last'.kwargs.is_active.given))
          => (id \in DOMAIN rows' /\ ~rows'[id].is_active)
     /\ ReadStep]_vars

\* A logical delete has acted on a Note that has a title and a content, next
\* to a Note that is still active.
C3_Witness ==
  /\ last.op = "delete" /\ last.outcome = "ok"
  /\ rows[last.id].is_active = FALSE
  /\ rows[last.id].title = Text("hello")
  /\ rows[last.id].content = Text("hello")
  /\ \E id \in Ids : rows[id].is_active

\* C4: no row is ever removed: every id ever handed out is still stored, and
\* the Note a logical delete acted on is stored with is_active = false.
C4_NoRowRemoved ==
  /\ \A i \in DOMAIN created : created[i] \in Ids
  /\ (last.op = "delete" /\ last.outcome = "ok") =>
       (last.id \in Ids /\ rows[last.id].is_active = FALSE)

\* Every Note of a full table has been deleted logically, the latest just now.
C4_Witness ==
  /\ Cardinality(Ids) = MaxNotes
  /\ \A id \in Ids : ~rows[id].is_active
  /\ last.op = "delete" /\ last.outcome = "ok"

\* C5: every row's last_updated_on is the clock reading of the latest
\* successful write to that row, whatever last_updated_on the caller supplied.
C5_LastUpdatedIsWriteTime ==
  \A id \in Ids : rows[id].last_updated_on = lastWrite[id]

\* A create that supplied a timestamp other than the time of the write.
C5_Witness ==
  /\ last.op = "create" /\ last.outcome = "ok"
  /\ last.kwargs.last_updated_on.given
  /\ last.kwargs.last_updated_on.val.val # lastWrite[last.id]
  /\ \E id \in Ids : id # last.id /\ lastWrite[id] < lastWrite[last.id]

\* C6: a create that supplies neither title nor content (and no NULL for a
\* NOT NULL column) succeeds, and the stored Note, which is what a read
\* returns, has title and content NULL.
C6_CreateWithoutText ==
  [][/\ (/\ last'.op = "create"
         /\ ~last'.kwargs.title.given
         /\ ~last'.kwargs.content.given
         /\ last'.kwargs.is_active # Given(None)) =>
          /\ last'.outcome = "ok"
          /\ rows'[last'.id].title = None
          /\ rows'[last'.id].content = None
     /\ ReadStep]_vars

\* A create that supplied nothing at all has succeeded, and its Note holds
\* NULL for title and content.
C6_Witness ==
  /\ last.op = "create" /\ last.outcome = "ok"
  /\ last.kwargs = NoKwargs
  /\ rows[last.id].title = None /\ rows[last.id].content = None

\* C7: a Note created without is_active is active, a Note created with an
\* is_active value has that value, and is_active goes from true to false only
\* in a write to that Note that sets is_active to false.
C7_ActiveByDefault ==
  [][/\ (last'.op = "create" /\ last'.outcome = "ok") =>
          rows'[last'.id].is_active =
            (IF last'.kwargs.is_active.given
               THEN last'.kwargs.is_active.val.val ELSE TRUE)
     /\ \A id \in DOMAIN rows :
          (rows[id].is_active /\ id \in DOMAIN rows' /\ ~rows'[id].is_active) =>
            /\ last'.op \in {"update", "delete"}
            /\ last'.id = id
            /\ last'.kwargs.is_active = Given(Bool(FALSE))]_vars

\* A Note was created without is_active, next to one created inactive.
C7_Witness ==
  /\ last.op = "create" /\ last.outcome = "ok"
  /\ ~last.kwargs.is_active.given
  /\ rows[last.id].is_active
  /\ \E id \in Ids : ~rows[id].is_active

\* C8: an update of one field changes that field and last_updated_on of that
\* Note only: the set of ids and every other Note stay as they were, and so do
\* the Note's other fields.
C8_UpdateFrame ==
  [][(last'.op = "update" /\ last'.outcome = "ok") =>
       LET id == last'.id
           kw == last'.kwargs IN
       /\ DOMAIN rows' = DOMAIN rows
       /\ created' = created
       /\ \A j \in DOMAIN rows : j # id => rows'[j] = rows[j]
       /\ rows'[id].title = (IF kw.title.given THEN kw.title.val ELSE rows[id].title)
       /\ rows'[id].content =
            (IF kw.content.given THEN kw.content.val ELSE rows[id].content)
       /\ rows'[id].is_active =
            (IF kw.is_active.given THEN kw.is_active.val.val ELSE rows[id].is_active)]_vars

\* The content of one of two Notes was updated to "hello"; the Note has kept
\* its title and its inactive flag.
C8_Witness ==
  /\ last.op = "update" /\ last.outcome = "ok"
  /\ last.kwargs.content = Given(Text("hello"))
  /\ rows[last.id].content = Text("hello")
  /\ rows[last.id].title = Text("hello")
  /\ ~rows[last.id].is_active
  /\ Cardinality(Ids) = 2

\* A sequence of rows in ascending, or descending, order of last_updated_on.
Ascending(s) ==
  \A i, j \in DOMAIN s : i < j => s[i].last_updated_on <= s[j].last_updated_on

Descending(s) ==
  \A i, j \in DOMAIN s : i < j => s[i].last_updated_on >= s[j].last_updated_on

\* C9: every listing is sorted by last_updated_on, ascending or descending.
C9_ListingSorted ==
  last.op = "list" => (Ascending(last.result) \/ Descending(last.result))

\* C10: str(note) yields the Note's title as text and never raises, also for
\* a Note whose title is NULL.
C10_StrIsTitle ==
  last.op = "str" =>
    /\ last.outcome = "ok"
    /\ Text(last.result) = rows[last.id].title

====
